---- MODULE Spec2Model ----
(***************************************************************************)
(* Model of the glitchcam image-stream corruption engine (js/glitch.js,    *)
(* class GlitchEngine): the configuration setters, applyEffect's dispatch, *)
(* corruptImageStream (encode, byte substitution, reconstruction race) and *)
(* useCorruptedBytes (fallback reconstruction); of CameraController        *)
(* (js/camera.js): start, stop, render, isRunning, putFrame; of the        *)
(* handlers of UIController (js/ui.js) that configure the engine and       *)
(* toggle the camera; and of the render loop of GlitchCameraApp: the busy  *)
(* flag and the processing interval.                                       *)
(*                                                                         *)
(* Conventions: a JavaScript string is the sequence of its UTF-16 code     *)
(* units; a Uint8Array is a sequence of numbers 0..255; JavaScript's       *)
(* 0-based index i is written i + 1 on a TLA+ sequence.  A base64 text is  *)
(* the sequence of its characters' alphabet indices 0..63, with Pad for    *)
(* the character '='.                                                      *)
(***************************************************************************)
EXTENDS Integers, Sequences, FiniteSets, TLC

VARIABLES engine, call, prev, app, camera, clock

vars == <<engine, call, prev, app, camera, clock>>

(***************************************************************************)
(* Bounds of the model.                                                    *)
(***************************************************************************)
\* widths of the input pixel buffers are 1..MaxWidth (height 1)
MaxWidth == 1
\* the encoder's streams in the race model have 1..MaxShort bytes
MaxShort == 2
\* the encoder's streams in the substitution model reach MaxTail bytes past
\* the header region of their format
MaxTail == 4
\* useCorruptedBytes is called directly on 0..MaxBytes bytes and on buffers
\* of 1..MaxPixelWidth by 1..2 pixels
MaxBytes == 3
MaxPixelWidth == 3
\* the reading of Date.now() when the page is loaded, and how far the clock
\* of the render loop runs past it (one interval and a millisecond)
Epoch == 1000
MaxElapsed == 501
\* getUserMedia grants at most MaxStreams streams to the calls of start()
MaxStreams == 2
\* on the page, the camera button calls start() for at most MaxSessions
\* streams
MaxSessions == 1
\* render() requests at most MaxFrames animation frames
MaxFrames == 2
\* corruptImageBytes is called directly on arrays of 0..MaxScan bytes with
\* skipBytes 0..MaxSkip
MaxScan == 5
MaxSkip == 2

(***************************************************************************)
(* Small helpers.                                                          *)
(***************************************************************************)
Min(a, b) == IF a < b THEN a ELSE b

Max(a, b) == IF a > b THEN a ELSE b

\* the stream of n bytes that repeats seed
Cycle(seed, n) == [k \in 1..n |-> seed[((k - 1) % Len(seed)) + 1]]

(***************************************************************************)
(* new TextEncoder().encode(string): UTF-8 of a UTF-16 code unit sequence. *)
(* A surrogate pair is one code point of four bytes; a surrogate that is   *)
(* not part of a pair is encoded as U+FFFD (EF BF BD).                     *)
(***************************************************************************)
IsHighSurrogate(c) == c >= 55296 /\ c <= 56319

IsLowSurrogate(c) == c >= 56320 /\ c <= 57343

ReplacementCharacter == <<239, 191, 189>>

Utf8OfCodePoint(cp) ==
    IF cp < 128 THEN <<cp>>
    ELSE IF cp < 2048 THEN <<192 + (cp \div 64), 128 + (cp % 64)>>
    ELSE IF cp < 65536
        THEN <<224 + (cp \div 4096), 128 + ((cp \div 64) % 64), 128 + (cp % 64)>>
    ELSE <<240 + (cp \div 262144), 128 + ((cp \div 4096) % 64),
           128 + ((cp \div 64) % 64), 128 + (cp % 64)>>

RECURSIVE EncodeFrom(_, _)
EncodeFrom(s, i) ==
    IF i > Len(s) THEN <<>>
    ELSE IF IsHighSurrogate(s[i]) /\ i < Len(s) /\ IsLowSurrogate(s[i + 1])
        THEN Utf8OfCodePoint(65536 + (s[i] - 55296) * 1024 + (s[i + 1] - 56320))
             \o EncodeFrom(s, i + 2)
    ELSE IF IsHighSurrogate(s[i]) \/ IsLowSurrogate(s[i])
        THEN ReplacementCharacter \o EncodeFrom(s, i + 1)
    ELSE Utf8OfCodePoint(s[i]) \o EncodeFrom(s, i + 1)

TextEncoderEncode(s) == EncodeFrom(s, 1)

(***************************************************************************)
(* btoa / atob on a byte sequence (the binary string in between, built     *)
(* with String.fromCharCode and read with charCodeAt, has one character    *)
(* per byte).                                                              *)
(***************************************************************************)
Pad == 64

btoa(b) ==
    LET n == Len(b)
        byteAt(k) == IF k <= n THEN b[k] ELSE 0
    IN  [k \in 1..(4 * ((n + 2) \div 3)) |->
            LET g  == (k - 1) \div 4
                r  == (k - 1) % 4
                b0 == byteAt(3 * g + 1)
                b1 == byteAt(3 * g + 2)
                b2 == byteAt(3 * g + 3)
            IN  CASE r = 0 -> b0 \div 4
                  [] r = 1 -> (b0 % 4) * 16 + (b1 \div 16)
                  [] r = 2 -> IF 3 * g + 2 > n THEN Pad
                              ELSE (b1 % 16) * 4 + (b2 \div 64)
                  [] OTHER -> IF 3 * g + 3 > n THEN Pad ELSE b2 % 64]

atob(s) ==
    LET m    == Len(s)
        pads == Cardinality({k \in 1..m : s[k] = Pad})
        n    == 3 * (m \div 4) - pads
        sextetAt(k) == IF s[k] = Pad THEN 0 ELSE s[k]
    IN  [k \in 1..n |->
            LET g  == (k - 1) \div 3
                r  == (k - 1) % 3
                s0 == sextetAt(4 * g + 1)
                s1 == sextetAt(4 * g + 2)
                s2 == sextetAt(4 * g + 3)
                s3 == sextetAt(4 * g + 4)
            IN  CASE r = 0 -> s0 * 4 + (s1 \div 16)
                  [] r = 1 -> (s1 % 16) * 16 + (s2 \div 4)
                  [] OTHER -> (s2 % 4) * 64 + s3]

(***************************************************************************)
(* ImageData: width, height and width * height * 4 RGBA samples.           *)
(***************************************************************************)
\* new ImageData(width, height): transparent black
ImageData(width, height) ==
    [width |-> width, height |-> height,
     data |-> [k \in 1..(width * height * 4) |-> 0]]

NoImage == [width |-> 0, height |-> 0, data |-> <<>>]

(***************************************************************************)
(* GlitchEngine: constructor and setters.                                  *)
(***************************************************************************)
Formats == {"jpeg", "png", "webp", "bmp"}

\* the state after new GlitchEngine(canvas): 'a' -> 'b', jpeg, protected, off
NewGlitchEngine ==
    [isActive         |-> FALSE,
     sourceChars      |-> <<97>>,
     destChars        |-> <<98>>,
     sourceBytes      |-> TextEncoderEncode(<<97>>),
     destBytes        |-> TextEncoderEncode(<<98>>),
     corruptionMode   |-> "jpeg",
     headerProtection |-> TRUE]

setActive(self, active) == [self EXCEPT !.isActive = active]

\* faulty variant of setReplacementChars: the byte sequences are not derived
\* again from the new strings
setReplacementCharsKeepingBytes(self, sourceChars, destChars) ==
    [self EXCEPT !.sourceChars = sourceChars, !.destChars = destChars]

setReplacementChars(self, sourceChars, destChars) ==
    [self EXCEPT !.sourceChars = sourceChars,
                 !.destChars   = destChars,
                 !.sourceBytes = TextEncoderEncode(sourceChars),
                 !.destBytes   = TextEncoderEncode(destChars)]

\* faulty variant of setCorruptionMode: an unrecognized mode is refused (the
\* setter throws and stores nothing)
setCorruptionModeValidating(self, mode) ==
    IF mode \in Formats THEN [self EXCEPT !.corruptionMode = mode] ELSE self

setCorruptionMode(self, mode) == [self EXCEPT !.corruptionMode = mode]

setHeaderProtection(self, enabled) == [self EXCEPT !.headerProtection = enabled]

(***************************************************************************)
(* corruptImageBytes(bytes, skipBytes): the substitution scan.  The result *)
(* holds the bytes after the scan, the local replacementCount and the      *)
(* message of the error thrown ("" when none is), and startByte, the       *)
(* position the scan started at.                                           *)
(***************************************************************************)
\* faulty variant of ShouldReplace: the length of destBytes is not tested
ShouldReplaceIgnoringDest(self) ==
    /\ self.sourceChars /= self.destChars
    /\ Len(self.sourceBytes) > 0

\* the guard of the scan: the strings differ and both byte sequences are
\* non-empty
ShouldReplace(self) ==
    /\ self.sourceChars /= self.destChars
    /\ Len(self.sourceBytes) > 0
    /\ Len(self.destBytes) > 0

\* the default arm of the switch on this.corruptionMode is taken
FractionThrows(self) ==
    self.headerProtection /\ self.corruptionMode \notin Formats

\* faulty variant of StartByte: the fraction of the length is left out
StartByteSkipOnly(self, length, skipBytes) == skipBytes

\* faulty variant of StartByte: the smaller of the two offsets is taken
StartByteMin(self, length, skipBytes) ==
    IF ~self.headerProtection THEN skipBytes
    ELSE CASE self.corruptionMode = "png"  -> Min(skipBytes, length \div 2)
           [] self.corruptionMode = "webp" -> Min(skipBytes, (3 * length) \div 10)
           [] self.corruptionMode = "bmp"  -> Min(skipBytes, length \div 5)
           [] OTHER                        -> skipBytes

\* startByte; Math.floor(length * 0.5), * 0.3 and * 0.2 are length \div 2,
\* (3 * length) \div 10 and length \div 5 for every length of a stream
StartByte(self, length, skipBytes) ==
    IF ~self.headerProtection THEN skipBytes
    ELSE CASE self.corruptionMode = "png"  -> Max(skipBytes, length \div 2)
           [] self.corruptionMode = "webp" -> Max(skipBytes, (3 * length) \div 10)
           [] self.corruptionMode = "bmp"  -> Max(skipBytes, length \div 5)
           [] OTHER                        -> skipBytes

\* bytes[i + j] === sourceBytes[j] for every j (i is 0-based)
MatchesAt(bytes, i, sourceBytes) ==
    \A j \in 0..(Len(sourceBytes) - 1) : bytes[i + j + 1] = sourceBytes[j + 1]

\* faulty variant of ReplaceAt: all of destBytes is written, also past the
\* end of the match
ReplaceAtWholeDest(bytes, i, sourceBytes, destBytes) ==
    [k \in 1..Len(bytes) |->
        LET j == k - 1 - i
        IN  IF j < 0 \/ j >= Max(Len(destBytes), Len(sourceBytes)) THEN bytes[k]
            ELSE IF j < Len(destBytes) THEN destBytes[j + 1]
            ELSE IF Len(destBytes) = 0 THEN 0
            ELSE destBytes[Len(destBytes)]]

\* faulty variant of ReplaceAt: a shorter destBytes is not padded, the rest of
\* the match keeps its bytes
ReplaceAtWithoutFill(bytes, i, sourceBytes, destBytes) ==
    [k \in 1..Len(bytes) |->
        LET j == k - 1 - i
        IN  IF j < 0 \/ j >= Min(Len(destBytes), Len(sourceBytes)) THEN bytes[k]
            ELSE destBytes[j + 1]]

\* the writes of one match: destBytes up to min(len(dest), len(source)), then
\* the last byte of destBytes up to len(source) (of an empty destBytes that
\* byte is undefined, which a Uint8Array stores as 0)
ReplaceAt(bytes, i, sourceBytes, destBytes) ==
    [k \in 1..Len(bytes) |->
        LET j == k - 1 - i
        IN  IF j < 0 \/ j >= Len(sourceBytes) THEN bytes[k]
            ELSE IF j < Min(Len(destBytes), Len(sourceBytes)) THEN destBytes[j + 1]
            ELSE IF Len(destBytes) = 0 THEN 0
            ELSE destBytes[Len(destBytes)]]

\* faulty variant of ScanStep: after a match the scan goes on at i + 1
ScanStepOverlapping(loop, p, sourceBytes, destBytes) ==
    IF \/ p < loop.i
       \/ p > Len(loop.bytes) - Len(sourceBytes)
       \/ ~MatchesAt(loop.bytes, p, sourceBytes)
    THEN loop
    ELSE [bytes            |-> ReplaceAt(loop.bytes, p, sourceBytes, destBytes),
          i                |-> p + 1,
          replacementCount |-> loop.replacementCount + 1,
          matches          |-> loop.matches \cup {p}]

\* faulty variant of ScanStep: the scan ends at the first match
ScanStepFirstOnly(loop, p, sourceBytes, destBytes) ==
    IF \/ p < loop.i
       \/ p > Len(loop.bytes) - Len(sourceBytes)
       \/ ~MatchesAt(loop.bytes, p, sourceBytes)
    THEN loop
    ELSE [bytes            |-> ReplaceAt(loop.bytes, p, sourceBytes, destBytes),
          i                |-> Len(loop.bytes),
          replacementCount |-> loop.replacementCount + 1,
          matches          |-> loop.matches \cup {p}]

\* the body of the for loop at position p.  loop holds the array, the next
\* value of i, the counter and the positions matched so far; the body runs
\* only when i has not been moved past p by an earlier match and the loop
\* condition i <= len(bytes) - len(source) holds, and after a match i is
\* moved to p + len(source).
ScanStep(loop, p, sourceBytes, destBytes) ==
    IF \/ p < loop.i
       \/ p > Len(loop.bytes) - Len(sourceBytes)
       \/ ~MatchesAt(loop.bytes, p, sourceBytes)
    THEN loop
    ELSE [bytes            |-> ReplaceAt(loop.bytes, p, sourceBytes, destBytes),
          i                |-> p + Len(sourceBytes),
          replacementCount |-> loop.replacementCount + 1,
          matches          |-> loop.matches \cup {p}]

\* the positions lo..hi of the for loop in ascending order: the first half,
\* then the second half on what the first half left; nothing runs when the
\* first half has moved i past hi
RECURSIVE ScanRange(_, _, _, _, _)
ScanRange(loop, lo, hi, sourceBytes, destBytes) ==
    IF lo > hi \/ loop.i > hi THEN loop
    ELSE IF lo = hi THEN ScanStep(loop, lo, sourceBytes, destBytes)
    ELSE LET mid == (lo + hi) \div 2
         IN  ScanRange(ScanRange(loop, lo, mid, sourceBytes, destBytes),
                       mid + 1, hi, sourceBytes, destBytes)

\* the for loop from position i to len(bytes) - len(source).  matches is the
\* set of the positions at which the loop found a match.
ScanFrom(bytes, i, sourceBytes, destBytes, replacementCount) ==
    LET loop == ScanRange([bytes |-> bytes, i |-> i,
                           replacementCount |-> replacementCount, matches |-> {}],
                          i, Len(bytes) - Len(sourceBytes), sourceBytes, destBytes)
    IN  [bytes |-> loop.bytes, replacementCount |-> loop.replacementCount,
         error |-> "", matches |-> loop.matches]

\* the value of startByte when the guard of the scan fails or the switch
\* throws: the scan has no start
NoScan == -1

corruptImageBytes(self, bytes, skipBytes) ==
    IF ~ShouldReplace(self)
    THEN [bytes |-> bytes, replacementCount |-> 0, error |-> "",
          startByte |-> NoScan, matches |-> {}]
    ELSE IF FractionThrows(self)
    THEN [bytes |-> bytes, replacementCount |-> 0,
          error |-> "Unknown corruption mode for header protection",
          startByte |-> NoScan, matches |-> {}]
    ELSE LET startByte == StartByte(self, Len(bytes), skipBytes)
             scanned   == ScanFrom(bytes, startByte,
                                   self.sourceBytes, self.destBytes, 0)
         IN  [bytes |-> scanned.bytes,
              replacementCount |-> scanned.replacementCount,
              error |-> "", startByte |-> startByte,
              matches |-> scanned.matches]

(***************************************************************************)
(* useCorruptedBytes(corruptedBytes, originalImageData): the fallback      *)
(* reconstruction.  Reading an empty byte array yields undefined, which a  *)
(* Uint8ClampedArray stores as 0.                                          *)
(***************************************************************************)
\* faulty variant of useCorruptedBytes: the second and third byte of a pixel
\* are read without wrapping around the end of the array
useCorruptedBytesWithoutWrap(corruptedBytes, originalImageData) ==
    LET n == Len(corruptedBytes)
        byteAt(idx) == IF idx >= n THEN 0 ELSE corruptedBytes[idx + 1]
    IN  [width  |-> originalImageData.width,
         height |-> originalImageData.height,
         data   |-> [k \in 1..(originalImageData.width * originalImageData.height * 4) |->
                        LET pixel   == (k - 1) \div 4
                            channel == (k - 1) % 4
                            byteIdx == IF n = 0 THEN 0 ELSE pixel % n
                        IN  IF channel = 3 THEN 255 ELSE byteAt(byteIdx + channel)]]

useCorruptedBytes(corruptedBytes, originalImageData) ==
    LET n == Len(corruptedBytes)
        byteAt(idx) == IF n = 0 THEN 0 ELSE corruptedBytes[(idx % n) + 1]
    IN  [width  |-> originalImageData.width,
         height |-> originalImageData.height,
         data   |-> [k \in 1..(originalImageData.width * originalImageData.height * 4) |->
                        LET pixel   == (k - 1) \div 4
                            channel == (k - 1) % 4
                            byteIdx == IF n = 0 THEN 0 ELSE pixel % n
                        IN  IF channel = 3 THEN 255 ELSE byteAt(byteIdx + channel)]]

(***************************************************************************)
(* corruptImageStream(imageData, format), the synchronous part: encode     *)
(* with canvas.toDataURL, decode the base64 payload, substitute when the   *)
(* engine is active, and encode the bytes back to a data URL.              *)
(***************************************************************************)
JpegSkipBytes == 50

PngSkipBytes == 200

WebpSkipBytes == 100

BmpSkipBytes == 30

\* faulty variant of MimeType: the default arm falls back to PNG
MimeTypeDefaultingToPng(format) ==
    CASE format = "jpeg" -> "image/jpeg"
      [] format = "webp" -> "image/webp"
      [] format = "bmp"  -> "image/bmp"
      [] OTHER           -> "image/png"

\* the switch on format that sets mimeType
MimeType(format) ==
    CASE format = "jpeg" -> "image/jpeg"
      [] format = "png"  -> "image/png"
      [] format = "webp" -> "image/webp"
      [] format = "bmp"  -> "image/bmp"
      [] OTHER           -> ""

\* the switch on format that sets skipBytes when headerProtection is on
FormatSkipBytes(format) ==
    CASE format = "jpeg" -> JpegSkipBytes
      [] format = "png"  -> PngSkipBytes
      [] format = "webp" -> WebpSkipBytes
      [] format = "bmp"  -> BmpSkipBytes
      [] OTHER           -> 0

\* faulty variant of SkipBytes: the header region is not skipped
SkipBytesNone(self, format) == 0

SkipBytes(self, format) ==
    IF self.headerProtection THEN FormatSkipBytes(format) ELSE 0

\* faulty variant of CorruptionEnabled: the substitution is not gated
CorruptionAlwaysEnabled(self) == TRUE

\* the gate of the substitution: if (this.isActive)
CorruptionEnabled(self) == self.isActive

NoDataURL == [mime |-> "", base64 |-> <<>>]

\* canvas.toDataURL(mimeType, quality) of the platform: the base64 data URL
\* of the encoder's stream; a type the platform cannot encode comes back as
\* a PNG data URL
toDataURL(stream, mimeType, supported) ==
    [mime   |-> IF supported THEN mimeType ELSE "image/png",
     base64 |-> btoa(stream)]

\* for (i...) if (bytes[i] !== beforeCorruption[i]) changedBytes++
ChangedBytes(bytes, beforeCorruption) ==
    Cardinality({k \in 1..Len(bytes) : bytes[k] /= beforeCorruption[k]})

\* what the synchronous part leaves: the error thrown ("" when none), the
\* encoder's data URL, the bytes after the substitution step, the copy of
\* the bytes taken before it (beforeCorruption), the skipBytes handed to
\* corruptImageBytes, the startByte it scanned from and the positions it
\* matched at, the counters and the data URL handed to the decoder
Thrown(message, dataURL) ==
    [error |-> message, dataURL |-> dataURL, bytes |-> <<>>,
     beforeCorruption |-> <<>>, skipBytes |-> 0, startByte |-> NoScan,
     matches |-> {},
     replacementCount |-> 0, changedBytes |-> 0, corruptedDataURL |-> NoDataURL]

Substituted(self, format, dataURL, bytes) ==
    IF ~CorruptionEnabled(self)
    THEN [error |-> "", dataURL |-> dataURL, bytes |-> bytes,
          beforeCorruption |-> <<>>, skipBytes |-> 0, startByte |-> NoScan,
          matches |-> {},
          replacementCount |-> 0, changedBytes |-> 0,
          corruptedDataURL |-> [mime |-> MimeType(format), base64 |-> btoa(bytes)]]
    ELSE IF self.headerProtection /\ format \notin Formats
    THEN Thrown("Unknown format for header protection", dataURL)
    ELSE LET corrupted == corruptImageBytes(self, bytes, SkipBytes(self, format))
         IN  IF corrupted.error /= "" THEN Thrown(corrupted.error, dataURL)
             ELSE [error |-> "", dataURL |-> dataURL, bytes |-> corrupted.bytes,
                   beforeCorruption |-> bytes,
                   skipBytes |-> SkipBytes(self, format),
                   startByte |-> corrupted.startByte,
                   matches |-> corrupted.matches,
                   replacementCount |-> corrupted.replacementCount,
                   changedBytes |-> ChangedBytes(corrupted.bytes, bytes),
                   corruptedDataURL |-> [mime   |-> MimeType(format),
                                         base64 |-> btoa(corrupted.bytes)]]

\* faulty variant of BmpSubstituted: the payload is not looked at
BmpSubstitutedUnchecked(format, dataURL) == FALSE

\* format === 'bmp' && dataURL.startsWith('data:image/png')
BmpSubstituted(format, dataURL) ==
    format = "bmp" /\ dataURL.mime = "image/png"

EncodeAndCorrupt(self, format, stream, supported) ==
    IF MimeType(format) = "" THEN Thrown("Unsupported image format", NoDataURL)
    ELSE LET dataURL == toDataURL(stream, MimeType(format), supported)
         IN  IF BmpSubstituted(format, dataURL)
             THEN Thrown("BMP format not supported by this browser", dataURL)
             ELSE Substituted(self, format, dataURL, atob(dataURL.base64))

(***************************************************************************)
(* One call of applyEffect or corruptImageStream and its reconstruction    *)
(* promise.  pc is the state of the promise the caller holds ("idle": no   *)
(* call); resolved, timer and img are the closure's flag, the 50 ms timer  *)
(* and the Image that loads the corrupted data URL; mode is the            *)
(* corruptionMode that applyEffect dispatched on; path names the handler   *)
(* that settled the promise.                                               *)
(***************************************************************************)
NoCall ==
    [pc |-> "idle", entry |-> "", mode |-> "", format |-> "",
     imageData |-> NoImage, dataURL |-> NoDataURL, bytes |-> <<>>,
     beforeCorruption |-> <<>>, skipBytes |-> 0, startByte |-> NoScan,
     matches |-> {},
     replacementCount |-> 0, changedBytes |-> 0,
     corruptedDataURL |-> NoDataURL,
     resolved |-> FALSE, timer |-> "none", img |-> "none",
     result |-> NoImage, error |-> "", path |-> ""]

\* a throw inside the async applyEffect, or out of corruptImageStream
Rejected(entry, mode, format, imageData, dataURL, message) ==
    [NoCall EXCEPT !.pc = "rejected", !.entry = entry, !.mode = mode,
                   !.format = format, !.imageData = imageData,
                   !.dataURL = dataURL, !.error = message]

\* resolve(value): settles a pending promise, does nothing to a settled one
Resolve(c, value, path) ==
    IF c.pc = "pending"
    THEN [c EXCEPT !.pc = "fulfilled", !.result = value, !.path = path]
    ELSE c

\* clearTimeout(timeout)
ClearTimeout(c) ==
    [c EXCEPT !.timer = IF c.timer = "armed" THEN "cleared" ELSE c.timer]

\* new Promise(...): the timer is set, the handlers are installed and the
\* image starts to load; when the try block throws at new Image(), the catch
\* resolves with the fallback at once
NewPromise(entry, mode, format, imageData, sync, imageThrows) ==
    LET c == [NoCall EXCEPT !.pc = "pending", !.entry = entry, !.mode = mode,
                            !.format = format, !.imageData = imageData,
                            !.dataURL = sync.dataURL, !.bytes = sync.bytes,
                            !.beforeCorruption = sync.beforeCorruption,
                            !.skipBytes = sync.skipBytes,
                            !.startByte = sync.startByte,
                            !.matches = sync.matches,
                            !.replacementCount = sync.replacementCount,
                            !.changedBytes = sync.changedBytes,
                            !.corruptedDataURL = sync.corruptedDataURL]
    IN  IF imageThrows
        THEN Resolve(c, useCorruptedBytes(c.bytes, c.imageData), "catch")
        ELSE [c EXCEPT !.timer = "armed", !.img = "loading"]

corruptImageStream(self, entry, imageData, format, stream, supported, imageThrows) ==
    LET sync == EncodeAndCorrupt(self, format, stream, supported)
    IN  IF sync.error /= ""
        THEN Rejected(entry, self.corruptionMode, format, imageData,
                      sync.dataURL, sync.error)
        ELSE NewPromise(entry, self.corruptionMode, format, imageData, sync,
                        imageThrows)

\* faulty variant of Dispatch: the default arm falls back to png
DispatchDefaultingToPng(self) ==
    IF self.corruptionMode \in Formats THEN self.corruptionMode ELSE "png"

\* faulty variant of Dispatch: the default arm falls back to jpeg
DispatchDefaultingToJpeg(self) ==
    IF self.corruptionMode \in Formats THEN self.corruptionMode ELSE "jpeg"

\* the switch of applyEffect: the format handed to corruptImageStream, or ""
\* when the default arm throws
Dispatch(self) ==
    IF self.corruptionMode \in Formats THEN self.corruptionMode ELSE ""

applyEffect(self, imageData, stream, supported, imageThrows) ==
    IF Dispatch(self) = ""
    THEN Rejected("applyEffect", self.corruptionMode, "", imageData, NoDataURL,
                  "Unknown corruption mode")
    ELSE corruptImageStream(self, "applyEffect", imageData, Dispatch(self),
                            stream, supported, imageThrows)

\* faulty variant of onTimeout: the substitution is made when the timer
\* fires, with the configuration the engine has then
onTimeoutRereadingConfig(c) ==
    IF ~c.resolved
    THEN Resolve([c EXCEPT !.resolved = TRUE, !.timer = "fired"],
                 useCorruptedBytes(
                     Substituted(engine, c.format, c.dataURL, atob(c.dataURL.base64)).bytes,
                     c.imageData),
                 "timeout")
    ELSE [c EXCEPT !.timer = "fired"]

\* faulty variant of onTimeout: the flag is set but resolve is not called
onTimeoutWithoutResolve(c) ==
    [c EXCEPT !.resolved = TRUE, !.timer = "fired"]

\* faulty variant of onTimeout: the fallback is built from the bytes as they
\* were before the substitution
onTimeoutFromOriginalBytes(c) ==
    IF ~c.resolved
    THEN Resolve([c EXCEPT !.resolved = TRUE, !.timer = "fired"],
                 useCorruptedBytes(atob(c.dataURL.base64), c.imageData), "timeout")
    ELSE [c EXCEPT !.timer = "fired"]

\* the setTimeout callback
onTimeout(c) ==
    IF ~c.resolved
    THEN Resolve([c EXCEPT !.resolved = TRUE, !.timer = "fired"],
                 useCorruptedBytes(c.bytes, c.imageData), "timeout")
    ELSE [c EXCEPT !.timer = "fired"]

\* faulty variant of onload: a load that comes after the promise was
\* resolved draws into the buffer that was returned
onloadIntoReturnedBuffer(c, drawn) ==
    IF ~c.resolved
    THEN IF drawn.throws
         THEN Resolve(ClearTimeout([c EXCEPT !.resolved = TRUE, !.img = "drawfailed"]),
                      useCorruptedBytes(c.bytes, c.imageData), "onload-catch")
         ELSE Resolve(ClearTimeout([c EXCEPT !.resolved = TRUE, !.img = "loaded"]),
                      drawn.pixels, "onload")
    ELSE IF drawn.throws THEN [c EXCEPT !.img = "loaded"]
    ELSE [c EXCEPT !.img = "loaded", !.result = drawn.pixels]

\* faulty variant of onload: the decoded pixels are dropped for the fallback
onloadPreferringBytes(c, drawn) ==
    IF ~c.resolved
    THEN Resolve(ClearTimeout([c EXCEPT !.resolved = TRUE,
                                        !.img = IF drawn.throws THEN "drawfailed"
                                                ELSE "loaded"]),
                 useCorruptedBytes(c.bytes, c.imageData),
                 IF drawn.throws THEN "onload-catch" ELSE "onload")
    ELSE [c EXCEPT !.img = "loaded"]

\* img.onload; drawn is what drawImage and getImageData do: they throw, or
\* give the decoded pixels
onload(c, drawn) ==
    IF ~c.resolved
    THEN IF drawn.throws
         THEN Resolve(ClearTimeout([c EXCEPT !.resolved = TRUE, !.img = "drawfailed"]),
                      useCorruptedBytes(c.bytes, c.imageData), "onload-catch")
         ELSE Resolve(ClearTimeout([c EXCEPT !.resolved = TRUE, !.img = "loaded"]),
                      drawn.pixels, "onload")
    ELSE [c EXCEPT !.img = "loaded"]

\* faulty variant of onerror: the decode error rejects the promise
onerrorRejects(c) ==
    IF ~c.resolved
    THEN [ClearTimeout(c) EXCEPT !.resolved = TRUE, !.img = "errored",
                                 !.pc = "rejected", !.error = "decode error"]
    ELSE [c EXCEPT !.img = "errored"]

\* img.onerror
onerror(c) ==
    IF ~c.resolved
    THEN Resolve(ClearTimeout([c EXCEPT !.resolved = TRUE, !.img = "errored"]),
                 useCorruptedBytes(c.bytes, c.imageData), "onerror")
    ELSE [c EXCEPT !.img = "errored"]

(***************************************************************************)
(* CameraController (js/camera.js).  A MediaStream is the number of the    *)
(* grant of getUserMedia that made it, NoStream is null.  live is the set  *)
(* of the streams whose tracks have not been stopped.  frame is what the   *)
(* display canvas shows (NoImage: cleared).                                *)
(*                                                                         *)
(* start() is async and has no guard, so calls of it overlap.  startCall   *)
(* is the latest call of start() and what it was called on: it waits for   *)
(* getUserMedia, then for the video's loadedmetadata event, then returns.  *)
(* earlier is the number of the calls before it that still wait for        *)
(* getUserMedia.  video.onloadedmetadata is one property: metadataWaiter   *)
(* names the call whose handler it holds while that call waits for the     *)
(* event ("latest", "earlier" or "none"); a call whose handler was         *)
(* replaced by another call's never returns.                               *)
(*                                                                         *)
(* requestAnimationFrame gives the ids 1, 2, ... (requested is the number  *)
(* of requests made by render()); scheduled is the set of the ids whose    *)
(* callback has neither run nor been cancelled; animationId 0 is null.     *)
(***************************************************************************)
NoStream == 0

NoStartCall ==
    [pc |-> "none", wasRunning |-> FALSE, streamAtCall |-> NoStream,
     value |-> "", error |-> ""]

\* the state after new CameraController(videoElement, canvasElement); a
\* canvas element without attributes is 300 x 150, a video element without a
\* source has videoWidth and videoHeight 0
NewCameraController ==
    [isActive    |-> FALSE,
     stream      |-> NoStream,
     srcObject   |-> NoStream,
     animationId |-> 0,
     requested   |-> 0,
     scheduled   |-> {},
     canvas      |-> [width |-> 300, height |-> 150],
     videoWidth  |-> 0,
     videoHeight |-> 0,
     frame       |-> NoImage,
     granted     |-> 0,
     live        |-> {},
     startCall   |-> NoStartCall,
     earlier     |-> 0,
     metadataWaiter |-> "none"]

\* the number of the calls of start() that wait for getUserMedia
Pending(self) ==
    self.earlier + (IF self.startCall.pc = "getUserMedia" THEN 1 ELSE 0)

\* the calls of start() that wait for getUserMedia
PendingCalls(self) ==
    (IF self.earlier > 0 THEN {"earlier"} ELSE {}) \cup
    (IF self.startCall.pc = "getUserMedia" THEN {"latest"} ELSE {})

\* start() up to its first await: getUserMedia is asked for a stream,
\* whatever the state of the camera and of the calls before this one
start(self) ==
    [self EXCEPT !.earlier = Pending(self),
                 !.metadataWaiter = IF @ = "latest" THEN "earlier" ELSE @,
                 !.startCall = [pc |-> "getUserMedia",
                                wasRunning |-> self.isActive,
                                streamAtCall |-> self.stream,
                                value |-> "", error |-> ""]]

\* getUserMedia resolved for the call which: this.stream and video.srcObject
\* are set (the stream they held is not stopped), video.onloadedmetadata is
\* set to the handler of this call, and the call waits for the metadata of
\* the new source
onGetUserMedia(self, which) ==
    [self EXCEPT !.granted = @ + 1,
                 !.live = @ \cup {self.granted + 1},
                 !.stream = self.granted + 1,
                 !.srcObject = self.granted + 1,
                 !.videoWidth = 0, !.videoHeight = 0,
                 !.metadataWaiter = which,
                 !.earlier = IF which = "earlier" THEN @ - 1 ELSE @,
                 !.startCall.pc = IF which = "latest" THEN "metadata" ELSE @]

\* handleError(error): the message of the Error it throws, named by what the
\* message says
handleError(name) ==
    CASE name = "NotAllowedError"      -> "access denied"
      [] name = "NotFoundError"        -> "camera not found"
      [] name = "NotReadableError"     -> "camera in use"
      [] name = "OverconstrainedError" -> "settings not supported"
      [] OTHER                         -> "camera start failed"

\* getUserMedia rejected for the call which: the catch calls handleError,
\* which throws, so the call of start() rejects
onGetUserMediaRejected(self, which, name) ==
    IF which = "latest"
    THEN [self EXCEPT !.startCall.pc = "rejected",
                      !.startCall.error = handleError(name)]
    ELSE [self EXCEPT !.earlier = @ - 1]

\* video.onloadedmetadata, and the call of start() that set it from there
\* to its return; assigning canvas.width and canvas.height clears the canvas
onloadedmetadata(self, videoWidth, videoHeight) ==
    [self EXCEPT !.videoWidth = videoWidth, !.videoHeight = videoHeight,
                 !.canvas = [width |-> videoWidth, height |-> videoHeight],
                 !.frame = NoImage,
                 !.isActive = TRUE,
                 !.metadataWaiter = "none",
                 !.startCall.pc =
                     IF self.metadataWaiter = "latest" THEN "returned" ELSE @,
                 !.startCall.value =
                     IF self.metadataWaiter = "latest" THEN "true" ELSE @]

\* faulty variant of stop: the video keeps its source
stopKeepingSource(self) ==
    [self EXCEPT !.isActive = FALSE,
                 !.scheduled = @ \ {self.animationId},
                 !.animationId = 0,
                 !.live = @ \ {self.stream},
                 !.stream = NoStream,
                 !.frame = NoImage]

\* stop(): the request of render() named by animationId is cancelled, the
\* tracks of this.stream are stopped, the video loses its source and the
\* canvas is cleared
stop(self) ==
    [self EXCEPT !.isActive = FALSE,
                 !.scheduled = @ \ {self.animationId},
                 !.animationId = 0,
                 !.live = @ \ {self.stream},
                 !.stream = NoStream,
                 !.srcObject = NoStream,
                 !.videoWidth = 0, !.videoHeight = 0,
                 !.frame = NoImage]

isRunning(self) == self.isActive

putFrame(self, imageData) == [self EXCEPT !.frame = imageData]

(***************************************************************************)
(* GlitchCameraApp: the render loop.  startTimes holds the clock readings  *)
(* of the last two frames that called applyEffect; unsettled counts the    *)
(* calls that were still pending when a later frame called applyEffect.    *)
(***************************************************************************)
GlitchInterval == 500

NewGlitchCameraApp ==
    [isProcessing    |-> FALSE,
     lastGlitchResult |-> NoImage,
     lastProcessTime |-> 0,
     glitchInterval  |-> GlitchInterval,
     startTimes      |-> <<>>,
     unsettled       |-> 0]

\* faulty variant of ShouldProcess: a frame at exactly the interval processes
ShouldProcessAtInterval(self, now) ==
    now - self.lastProcessTime >= self.glitchInterval

\* shouldProcess = now - this.lastProcessTime > this.glitchInterval
ShouldProcess(self, now) ==
    now - self.lastProcessTime > self.glitchInterval

\* faulty variant of CanStart: the busy flag is not looked at
CanStartIgnoringBusy(self, now) == ShouldProcess(self, now)

\* !this.isProcessing && shouldProcess
CanStart(self, now) == ~self.isProcessing /\ ShouldProcess(self, now)

\* camera.isRunning() and the video has dimensions
CameraReady(cam) ==
    isRunning(cam) /\ cam.videoWidth > 0 /\ cam.videoHeight > 0

\* what drawImage(video) and getImageData give on the temporary canvas: the
\* picture of the camera, opaque grey here, at the size of the display canvas
VideoPixels(width, height) ==
    [width |-> width, height |-> height,
     data |-> [k \in 1..(width * height * 4) |-> IF k % 4 = 0 THEN 255 ELSE 128]]

\* render(): nothing on a camera that is not active; otherwise the picture
\* of the video is drawn on the display canvas (a video without data draws
\* nothing) and the next call of render() is requested
render(self) ==
    IF ~self.isActive THEN self
    ELSE [self EXCEPT !.frame = IF self.videoWidth > 0
                                 THEN VideoPixels(self.canvas.width, self.canvas.height)
                                 ELSE @,
                      !.requested = @ + 1,
                      !.animationId = self.requested + 1,
                      !.scheduled = @ \cup {self.requested + 1}]

(***************************************************************************)
(* UIController (js/ui.js) on the page index.html.  Its constructor ends   *)
(* with toggleHeaderProtection() and toggleGlitch(), which copy the two    *)
(* checkboxes of the page to the engine.                                   *)
(***************************************************************************)
\* <input type="checkbox" id="glitch-toggle" checked>
GlitchToggleChecked == TRUE

\* <input type="checkbox" id="header-protection" checked>
HeaderProtectionChecked == TRUE

\* toggleGlitch() with the checkbox in the state checked
toggleGlitch(glitchEngine, checked) == setActive(glitchEngine, checked)

\* toggleHeaderProtection() with the checkbox in the state checked
toggleHeaderProtection(glitchEngine, checked) ==
    setHeaderProtection(glitchEngine, checked)

\* updateReplacement() with the values of the two text fields: an empty
\* field stands for 'a' (source) or 'b' (destination)
updateReplacement(glitchEngine, sourceValue, destValue) ==
    setReplacementChars(glitchEngine,
                        IF sourceValue = <<>> THEN <<97>> ELSE sourceValue,
                        IF destValue = <<>> THEN <<98>> ELSE destValue)

\* the engine after new UIController(glitchEngine, cameraController)
NewUIController(glitchEngine) ==
    toggleGlitch(toggleHeaderProtection(glitchEngine, HeaderProtectionChecked),
                 GlitchToggleChecked)

\* faulty variant of WaitingFrame: without a result the camera's picture is
\* shown
WaitingFrameRaw(self, cam) ==
    IF self.lastGlitchResult /= NoImage THEN self.lastGlitchResult
    ELSE VideoPixels(cam.canvas.width, cam.canvas.height)

\* the frame put on the canvas when no call is started: the last result, or
\* a black new ImageData of the size of the canvas
WaitingFrame(self, cam) ==
    IF self.lastGlitchResult /= NoImage THEN self.lastGlitchResult
    ELSE ImageData(cam.canvas.width, cam.canvas.height)

\* the last two entries of the start times, with now appended
Started(self, now) ==
    IF Len(self.startTimes) < 2 THEN Append(self.startTimes, now)
    ELSE <<self.startTimes[2], now>>

\* the number of pending calls of applyEffect
InFlight == app.unsettled + (IF call.pc = "pending" THEN 1 ELSE 0)

(***************************************************************************)
(* The inputs the model draws from.                                        *)
(***************************************************************************)
\* arguments of setCorruptionMode: the four formats and an unrecognized one
ModeInputs == Formats \cup {"invalid"}

\* arguments of corruptImageStream when it is called directly
FormatInputs == Formats \cup {"unsupported"}

\* arguments of setReplacementChars in the race model: '' and 'a'
Strings == {<<>>, <<97>>}

\* arguments of setReplacementChars in the substitution model: '', 'a', 'b',
\* 'aa', two lone surrogates (both encoded as EF BF BD) and a surrogate pair
PatternStrings ==
    {<<>>, <<97>>, <<98>>, <<97, 97>>, <<55296>>, <<56320>>, <<55357, 56832>>}

\* the input pixel buffers: new ImageData(w, 1)
Inputs == {ImageData(w, 1) : w \in 1..MaxWidth}

\* the platform encodes jpeg and png; it may lack webp and bmp
PlatformSupport(format) ==
    IF format \in {"jpeg", "png"} THEN {TRUE} ELSE BOOLEAN

\* the streams the platform's encoder yields in the race model: 'b', 'ba', ...
ShortStreams == {Cycle(<<98, 97>>, n) : n \in 1..MaxShort}

\* the streams the platform's encoder yields in the substitution model: one
\* byte, one byte short of the header region, just past it, and MaxTail past it
LongLengths(format) ==
    {1, FormatSkipBytes(format) - 1, FormatSkipBytes(format) + 1,
     FormatSkipBytes(format) + MaxTail} \ {-1, 0}

LongSeeds == {<<97>>, <<98, 97, 97>>, ReplacementCharacter, <<240, 159, 152, 128, 97>>}

LongStreams(format) ==
    {Cycle(seed, n) : seed \in LongSeeds, n \in LongLengths(format)}

\* what drawImage and getImageData give in img.onload: an exception, or the
\* decoded pixels at the dimensions of the input
DrawOutcomes(imageData) ==
    {[throws |-> TRUE, pixels |-> NoImage]} \cup
    {[throws |-> FALSE,
      pixels |-> [imageData EXCEPT !.data = [k \in DOMAIN imageData.data |-> v]]] :
        v \in {0, 254}}

\* what drawImage and getImageData give in img.onload while the render loop
\* runs: an exception, or one decoded picture
LoopDrawOutcomes(imageData) ==
    {[throws |-> TRUE, pixels |-> NoImage],
     [throws |-> FALSE,
      pixels |-> [imageData EXCEPT !.data = [k \in DOMAIN imageData.data |-> 254]]]}

\* the byte arrays useCorruptedBytes is called on directly: every array of
\* up to MaxBytes bytes out of 10, 20, 30, and [10, 20, 30, 40]
RECURSIVE ByteArrays(_)
ByteArrays(n) ==
    IF n = 0 THEN {<<>>}
    ELSE ByteArrays(n - 1) \cup
         {Append(b, v) : b \in {a \in ByteArrays(n - 1) : Len(a) = n - 1},
                         v \in {10, 20, 30}}

FallbackBytes == ByteArrays(MaxBytes) \cup {<<10, 20, 30, 40>>}

FallbackInputs == {ImageData(w, h) : w \in 1..MaxPixelWidth, h \in 1..2}

\* the names of the errors getUserMedia rejects with
ErrorNames == {"NotAllowedError", "TypeError"}

\* the name of the error getUserMedia rejects with on the page
LoopErrorNames == {"NotAllowedError"}

\* the dimensions the video reports with its metadata
VideoSizes == {[width |-> 2, height |-> 1]}

\* how far the clock moves between two events of the render loop
ClockSteps == {500, 501}

\* the modes the mode buttons and other callers set while the loop runs
LoopModes == {"jpeg", "invalid"}

\* the values of the text fields #source-chars and #dest-chars: '' and 'b'
FieldValues == {<<>>, <<98>>}

\* the stream the platform's encoder yields to the render loop: 'ba'
LoopStreams == {Cycle(<<98, 97>>, 2)}

\* arguments of setReplacementChars in the scan model: 'a', 'b', 'aa', 'ba'
ScanStrings == {<<97>>, <<98>>, <<97, 97>>, <<98, 97>>}

\* the arrays corruptImageBytes is called on directly: every array of up to
\* n bytes out of 'a' and 'b'
RECURSIVE ScanArrays(_)
ScanArrays(n) ==
    IF n = 0 THEN {<<>>}
    ELSE ScanArrays(n - 1) \cup
         {Append(b, v) : b \in {a \in ScanArrays(n - 1) : Len(a) = n - 1},
                         v \in {97, 98}}

\* a length of the encoder's stream at which the fraction of the length that
\* corruptImageBytes takes for the format lies MaxTail or more past the
\* format's skipBytes (jpeg has no fraction)
FractionLength(format) ==
    CASE format = "png"  -> 2 * (PngSkipBytes + MaxTail)
      [] format = "webp" -> ((10 * (WebpSkipBytes + MaxTail)) \div 3) + 1
      [] format = "bmp"  -> 5 * (BmpSkipBytes + MaxTail)
      [] OTHER           -> JpegSkipBytes + 2 * MaxTail

\* the positions around which the stream of the scan model holds 'a' and 'b':
\* its start, the format's skipBytes, the fractions of its length, its end
StreamMarks(format, n) ==
    {0, FormatSkipBytes(format), n \div 2, (3 * n) \div 10, n \div 5, n}

\* the streams the platform's encoder yields in the scan model: 'c' bytes,
\* and 'baa' repeated within MaxTail bytes of every mark
OffsetStreams(format) ==
    LET n == FractionLength(format)
    IN  {[k \in 1..n |->
            IF \E m \in StreamMarks(format, n) :
                 k - 1 >= m - MaxTail /\ k - 1 < m + MaxTail
            THEN <<98, 97, 97>>[((k - 1) % 3) + 1]
            ELSE 99]}

\* the configurations the setters reach from a new engine
ConfiguredEngines(strings) ==
    {setActive(setHeaderProtection(setCorruptionMode(
        setReplacementChars(NewGlitchEngine, s, d), m), h), a) :
        s \in strings, d \in strings, m \in ModeInputs, h \in BOOLEAN, a \in BOOLEAN}

(***************************************************************************)
(* Actions.                                                                *)
(***************************************************************************)
SetActive(active) ==
    /\ engine' = setActive(engine, active)
    /\ UNCHANGED <<call, prev, app, camera, clock>>

SetReplacementChars(sourceChars, destChars) ==
    /\ engine' = setReplacementChars(engine, sourceChars, destChars)
    /\ UNCHANGED <<call, prev, app, camera, clock>>

SetCorruptionMode(mode) ==
    /\ engine' = setCorruptionMode(engine, mode)
    /\ UNCHANGED <<call, prev, app, camera, clock>>

SetHeaderProtection(enabled) ==
    /\ engine' = setHeaderProtection(engine, enabled)
    /\ UNCHANGED <<call, prev, app, camera, clock>>

\* a caller awaits engine.applyEffect(imageData)
ApplyEffect(imageData, stream, supported, imageThrows) ==
    /\ call.pc = "idle"
    /\ call' = applyEffect(engine, imageData, stream, supported, imageThrows)
    /\ UNCHANGED <<engine, prev, app, camera, clock>>

\* a caller awaits engine.corruptImageStream(imageData, format)
CorruptImageStream(imageData, format, stream, supported, imageThrows) ==
    /\ call.pc = "idle"
    /\ call' = corruptImageStream(engine, "corruptImageStream", imageData, format,
                                  stream, supported, imageThrows)
    /\ UNCHANGED <<engine, prev, app, camera, clock>>

TimeoutFires ==
    /\ call.timer = "armed"
    /\ call' = onTimeout(call)
    /\ UNCHANGED <<engine, prev, app, camera, clock>>

ImgOnload(drawn) ==
    /\ call.img = "loading"
    /\ call' = onload(call, drawn)
    /\ UNCHANGED <<engine, prev, app, camera, clock>>

ImgOnerror ==
    /\ call.img = "loading"
    /\ call' = onerror(call)
    /\ UNCHANGED <<engine, prev, app, camera, clock>>

\* the awaiting caller takes the settlement; the engine is free for a new call
Return ==
    /\ call.pc \in {"fulfilled", "rejected"}
    /\ call' = NoCall
    /\ UNCHANGED <<engine, prev, app, camera, clock>>

\* the same, by a caller that keeps the settled call to compare the next with
ReturnAndKeep ==
    /\ call.pc \in {"fulfilled", "rejected"}
    /\ call' = NoCall
    /\ prev' = call
    /\ UNCHANGED <<engine, app, camera, clock>>

\* a caller calls engine.useCorruptedBytes(bytes, imageData)
UseCorruptedBytes(bytes, imageData) ==
    /\ call.pc = "idle"
    /\ call' = [NoCall EXCEPT !.pc = "fulfilled", !.entry = "useCorruptedBytes",
                              !.imageData = imageData, !.bytes = bytes,
                              !.result = useCorruptedBytes(bytes, imageData),
                              !.path = "direct"]
    /\ UNCHANGED <<engine, prev, app, camera, clock>>

\* a caller calls engine.corruptImageBytes(bytes, skipBytes); the call record
\* holds the array before and after, and pc tells whether the method returned
\* ("fulfilled") or threw ("rejected")
CorruptImageBytes(bytes, skipBytes) ==
    /\ call.pc = "idle"
    /\ call' = LET corrupted == corruptImageBytes(engine, bytes, skipBytes)
               IN  [NoCall EXCEPT
                      !.pc = IF corrupted.error = "" THEN "fulfilled" ELSE "rejected",
                      !.entry = "corruptImageBytes",
                      !.mode = engine.corruptionMode,
                      !.beforeCorruption = bytes,
                      !.skipBytes = skipBytes,
                      !.startByte = corrupted.startByte,
                      !.matches = corrupted.matches,
                      !.bytes = corrupted.bytes,
                      !.replacementCount = corrupted.replacementCount,
                      !.error = corrupted.error,
                      !.path = "direct"]
    /\ UNCHANGED <<engine, prev, app, camera, clock>>

\* a caller calls start(); MaxStreams bounds the streams that the calls made
\* so far can be granted
CameraStart ==
    /\ camera.granted + Pending(camera) < MaxStreams
    /\ camera' = start(camera)
    /\ UNCHANGED <<engine, call, prev, app, clock>>

\* the platform grants a stream to one of the calls that wait for it
GetUserMediaResolves(which) ==
    /\ which \in PendingCalls(camera)
    /\ camera' = onGetUserMedia(camera, which)
    /\ UNCHANGED <<engine, call, prev, app, clock>>

GetUserMediaRejects(which, name) ==
    /\ which \in PendingCalls(camera)
    /\ camera' = onGetUserMediaRejected(camera, which, name)
    /\ UNCHANGED <<engine, call, prev, app, clock>>

\* the video reports the metadata of the source it was given last
LoadedMetadata(videoWidth, videoHeight) ==
    /\ camera.srcObject /= NoStream
    /\ camera.videoWidth = 0
    /\ camera' = onloadedmetadata(camera, videoWidth, videoHeight)
    /\ UNCHANGED <<engine, call, prev, app, clock>>

\* a caller calls stop()
CameraStop ==
    /\ camera' = stop(camera)
    /\ UNCHANGED <<engine, call, prev, app, clock>>

\* a caller calls render()
Render ==
    /\ camera.requested < MaxFrames
    /\ camera' = render(camera)
    /\ UNCHANGED <<engine, call, prev, app, clock>>

\* the animation frame requested by render() under id: render() runs again
RenderFrame(id) ==
    /\ id \in camera.scheduled
    /\ camera.isActive => camera.requested < MaxFrames
    /\ camera' = render([camera EXCEPT !.scheduled = @ \ {id}])
    /\ UNCHANGED <<engine, call, prev, app, clock>>

\* toggleCamera(), the click handler of #camera-toggle: stop() on a running
\* camera, start() on any other, also one that is being started;
\* MaxSessions bounds the streams that the calls made so far can be granted
ToggleCamera ==
    /\ IF isRunning(camera)
       THEN camera' = stop(camera)
       ELSE /\ camera.granted + Pending(camera) < MaxSessions
            /\ camera' = start(camera)
    /\ UNCHANGED <<engine, call, prev, app, clock>>

\* the input event of #source-chars or #dest-chars, with the values the two
\* fields hold then
UpdateReplacement(sourceValue, destValue) ==
    /\ engine' = updateReplacement(engine, sourceValue, destValue)
    /\ UNCHANGED <<call, prev, app, camera, clock>>

\* time passes
Tick(d) ==
    /\ clock + d <= Epoch + MaxElapsed
    /\ clock' = clock + d
    /\ UNCHANGED <<engine, call, prev, app, camera>>

\* processFrame, the requestAnimationFrame callback.  captureThrows: drawing
\* the video to the temporary canvas or reading it back throws; putThrows:
\* camera.putFrame throws.  Both are caught by the try around the body.
ProcessFrame(stream, supported, imageThrows, captureThrows, putThrows) ==
    /\ CameraReady(camera)
    /\ IF CanStart(app, clock)
       THEN IF captureThrows
            THEN /\ app' = [app EXCEPT !.lastProcessTime = clock]
                 /\ UNCHANGED <<call, camera>>
            ELSE /\ app' = [app EXCEPT
                              !.lastProcessTime = clock,
                              !.isProcessing = TRUE,
                              !.startTimes = Started(app, clock),
                              !.unsettled = @ + (IF call.pc = "pending" THEN 1 ELSE 0)]
                 /\ call' = applyEffect(engine,
                                VideoPixels(camera.canvas.width, camera.canvas.height),
                                stream, supported, imageThrows)
                 /\ UNCHANGED camera
       ELSE /\ camera' = IF putThrows THEN camera
                         ELSE putFrame(camera, WaitingFrame(app, camera))
            /\ UNCHANGED <<app, call>>
    /\ UNCHANGED <<engine, prev, clock>>

\* faulty variant of OnProcessed: no catch callback follows the then
\* callback, and the flag stays set when putFrame throws
OnProcessedWithoutCatch(putThrows) ==
    /\ call.pc = "fulfilled" /\ call.entry = "applyEffect"
    /\ app' = [app EXCEPT !.lastGlitchResult = call.result,
                          !.isProcessing = putThrows]
    /\ camera' = IF putThrows THEN camera ELSE putFrame(camera, call.result)
    /\ call' = NoCall
    /\ UNCHANGED <<engine, prev, clock>>

\* the then callback of the loop's applyEffect call; when putFrame throws in
\* it, the catch callback that follows clears the flag
OnProcessed(putThrows) ==
    /\ call.pc = "fulfilled" /\ call.entry = "applyEffect"
    /\ app' = [app EXCEPT !.lastGlitchResult = call.result,
                          !.isProcessing = FALSE]
    /\ camera' = IF putThrows THEN camera ELSE putFrame(camera, call.result)
    /\ call' = NoCall
    /\ UNCHANGED <<engine, prev, clock>>

\* the catch callback of the loop's applyEffect call
OnProcessingError ==
    /\ call.pc = "rejected" /\ call.entry = "applyEffect"
    /\ app' = [app EXCEPT !.isProcessing = FALSE]
    /\ call' = NoCall
    /\ UNCHANGED <<engine, prev, camera, clock>>

(***************************************************************************)
(* Spec: the engine, its setters at any time, and one call at a time with  *)
(* its reconstruction race.                                                *)
(***************************************************************************)
Init ==
    /\ engine = NewGlitchEngine
    /\ call = NoCall
    /\ prev = NoCall
    /\ app = NewGlitchCameraApp
    /\ camera = NewCameraController
    /\ clock = Epoch

Next ==
    \/ \E active \in BOOLEAN : SetActive(active)
    \/ \E s \in Strings, d \in Strings : SetReplacementChars(s, d)
    \/ \E mode \in ModeInputs : SetCorruptionMode(mode)
    \/ \E enabled \in BOOLEAN : SetHeaderProtection(enabled)
    \/ \E imageData \in Inputs, stream \in ShortStreams,
          supported \in PlatformSupport(engine.corruptionMode),
          imageThrows \in BOOLEAN :
            ApplyEffect(imageData, stream, supported, imageThrows)
    \/ \E imageData \in Inputs, format \in FormatInputs, stream \in ShortStreams :
          \E supported \in PlatformSupport(format), imageThrows \in BOOLEAN :
            CorruptImageStream(imageData, format, stream, supported, imageThrows)
    \/ TimeoutFires
    \/ \E drawn \in DrawOutcomes(call.imageData) : ImgOnload(drawn)
    \/ ImgOnerror
    \/ Return

Spec == Init /\ [][Next]_vars

\* the timer of setTimeout fires unless it is cleared
LiveSpec == Spec /\ WF_vars(TimeoutFires)

(***************************************************************************)
(* CorruptSpec: the substitution step on streams that reach past the       *)
(* header region.  The engine is configured, then applyEffect runs its     *)
(* synchronous part (encode, substitute, start the reconstruction) once.   *)
(***************************************************************************)
CorruptNext ==
    \/ call.pc = "idle" /\ \E active \in BOOLEAN : SetActive(active)
    \/ call.pc = "idle" /\ \E s \in PatternStrings, d \in PatternStrings :
                              SetReplacementChars(s, d)
    \/ call.pc = "idle" /\ \E mode \in ModeInputs : SetCorruptionMode(mode)
    \/ call.pc = "idle" /\ \E enabled \in BOOLEAN : SetHeaderProtection(enabled)
    \/ \E imageData \in Inputs, stream \in LongStreams(engine.corruptionMode),
          supported \in PlatformSupport(engine.corruptionMode) :
            ApplyEffect(imageData, stream, supported, FALSE)

CorruptSpec == Init /\ [][CorruptNext]_vars

(***************************************************************************)
(* DetSpec: a configured engine whose caller runs applyEffect again and    *)
(* again without touching the configuration, keeping the previous settled  *)
(* call to compare the next one with.                                      *)
(***************************************************************************)
DetInit ==
    /\ engine \in ConfiguredEngines({<<97>>, <<98>>})
    /\ call = NoCall
    /\ prev = NoCall
    /\ app = NewGlitchCameraApp
    /\ camera = NewCameraController
    /\ clock = Epoch

DetNext ==
    \/ \E imageData \in Inputs, stream \in ShortStreams,
          supported \in PlatformSupport(engine.corruptionMode),
          imageThrows \in BOOLEAN :
            ApplyEffect(imageData, stream, supported, imageThrows)
    \/ TimeoutFires
    \/ \E drawn \in DrawOutcomes(call.imageData) : ImgOnload(drawn)
    \/ ImgOnerror
    \/ ReturnAndKeep

DetSpec == DetInit /\ [][DetNext]_vars

(***************************************************************************)
(* FallbackSpec: useCorruptedBytes called directly, on byte arrays shorter *)
(* and longer than the pixel buffer.                                       *)
(***************************************************************************)
FallbackNext ==
    \/ \E bytes \in FallbackBytes, imageData \in FallbackInputs :
          UseCorruptedBytes(bytes, imageData)
    \/ Return

FallbackSpec == Init /\ [][FallbackNext]_vars

(***************************************************************************)
(* ScanSpec: the substitution scan.  The engine is configured, then either *)
(* corruptImageBytes is called directly on a short array with a small      *)
(* skipBytes, or applyEffect runs its synchronous part on a stream long     *)
(* enough for the fraction of the length to pass the format's skipBytes.   *)
(***************************************************************************)
ScanNext ==
    \/ call.pc = "idle" /\ \E active \in BOOLEAN : SetActive(active)
    \/ call.pc = "idle" /\ \E s \in ScanStrings, d \in ScanStrings :
                              SetReplacementChars(s, d)
    \/ call.pc = "idle" /\ \E mode \in ModeInputs : SetCorruptionMode(mode)
    \/ call.pc = "idle" /\ \E enabled \in BOOLEAN : SetHeaderProtection(enabled)
    \/ \E bytes \in ScanArrays(MaxScan), skipBytes \in 0..MaxSkip :
          CorruptImageBytes(bytes, skipBytes)
    \/ \E imageData \in Inputs, stream \in OffsetStreams(engine.corruptionMode),
          supported \in PlatformSupport(engine.corruptionMode) :
            ApplyEffect(imageData, stream, supported, FALSE)
    \/ Return

ScanSpec == Init /\ [][ScanNext]_vars

(***************************************************************************)
(* CameraSpec: a CameraController used by itself.  start(), stop() and     *)
(* render() are called in any state, as its callers may.                   *)
(***************************************************************************)
CameraNext ==
    \/ CameraStart
    \/ \E which \in {"earlier", "latest"} : GetUserMediaResolves(which)
    \/ \E which \in {"earlier", "latest"}, name \in ErrorNames :
          GetUserMediaRejects(which, name)
    \/ \E size \in VideoSizes : LoadedMetadata(size.width, size.height)
    \/ CameraStop
    \/ Render
    \/ \E id \in 1..MaxFrames : RenderFrame(id)

CameraSpec == Init /\ [][CameraNext]_vars

(***************************************************************************)
(* AppSpec: GlitchCameraApp on the page.  The camera button starts and     *)
(* stops the camera, the clock runs, the toggles, the text fields and the  *)
(* mode buttons configure the engine at any time, and the render loop's    *)
(* frames call applyEffect and display its results.  The app never calls   *)
(* CameraController.render().                                              *)
(***************************************************************************)
\* the state after new GlitchCameraApp(): initializeModules constructs the
\* camera, the engine and the UI controller
AppInit ==
    /\ engine = NewUIController(NewGlitchEngine)
    /\ call = NoCall
    /\ prev = NoCall
    /\ app = NewGlitchCameraApp
    /\ camera = NewCameraController
    /\ clock = Epoch

AppNext ==
    \/ ToggleCamera
    \/ \E which \in {"earlier", "latest"} : GetUserMediaResolves(which)
    \/ \E which \in {"earlier", "latest"}, name \in LoopErrorNames :
          GetUserMediaRejects(which, name)
    \/ \E size \in VideoSizes : LoadedMetadata(size.width, size.height)
    \/ \E active \in BOOLEAN : SetActive(active)
    \/ \E enabled \in BOOLEAN : SetHeaderProtection(enabled)
    \/ \E sourceValue \in FieldValues, destValue \in FieldValues :
          UpdateReplacement(sourceValue, destValue)
    \/ \E mode \in LoopModes : SetCorruptionMode(mode)
    \/ \E d \in ClockSteps : Tick(d)
    \/ \E stream \in LoopStreams,
          supported \in PlatformSupport(engine.corruptionMode),
          imageThrows \in BOOLEAN, captureThrows \in BOOLEAN,
          putThrows \in BOOLEAN :
            ProcessFrame(stream, supported, imageThrows, captureThrows, putThrows)
    \/ TimeoutFires
    \/ \E drawn \in LoopDrawOutcomes(call.imageData) : ImgOnload(drawn)
    \/ ImgOnerror
    \/ \E putThrows \in BOOLEAN : OnProcessed(putThrows)
    \/ OnProcessingError

AppSpec == AppInit /\ [][AppNext]_vars

\* the timer of the reconstruction fires unless it is cleared, and the then
\* and catch callbacks of a settled promise run
AppLiveSpec ==
    /\ AppSpec
    /\ WF_vars(TimeoutFires)
    /\ WF_vars(\E putThrows \in BOOLEAN : OnProcessed(putThrows))
    /\ WF_vars(OnProcessingError)

(***************************************************************************)
(* Properties.                                                             *)
(***************************************************************************)
\* the bytes of the encoder's stream, as the call decoded them from its data URL
EncoderBytes(c) == atob(c.dataURL.base64)

\* the result the fallback reconstruction gives for the call
Fallback(c) == useCorruptedBytes(c.bytes, c.imageData)

\* C1: when applyEffect dispatches on a mode that is not one of the four
\* formats, the call is rejected with 'Unknown corruption mode': nothing is
\* encoded, no format stands in for the mode, and no pixel buffer results.
C1_UnknownModeRejects ==
    (call.entry = "applyEffect" /\ call.mode \notin Formats) =>
        /\ call.pc = "rejected"
        /\ call.error = "Unknown corruption mode"
        /\ call.format = ""
        /\ call.dataURL = NoDataURL
        /\ call.bytes = <<>>
        /\ call.corruptedDataURL = NoDataURL
        /\ call.timer = "none" /\ call.img = "none"
        /\ call.result = NoImage

\* an applyEffect call on mode 'invalid' was rejected, on an active engine
\* without header protection
C1_Witness ==
    /\ call.entry = "applyEffect" /\ call.mode = "invalid"
    /\ call.pc = "rejected"
    /\ engine.isActive /\ ~engine.headerProtection
    /\ engine.corruptionMode = "invalid"

\* C2: a call whose promise is pending is eventually fulfilled with a pixel
\* buffer, also when the image never reports a load or an error (the timer is
\* the only step assumed to happen).
C2_EventuallySettles ==
    (call.pc = "pending") ~> (call.pc = "fulfilled" /\ call.result /= NoImage)

\* the timer settled a call whose image has reported nothing
C2_Witness ==
    /\ call.pc = "fulfilled" /\ call.path = "timeout"
    /\ call.img = "loading"
    /\ call.result = Fallback(call)

\* C3: once the decode has failed (the error event, or an exception while
\* drawing the loaded image), the call is fulfilled, never rejected, and its
\* result is the fallback reconstruction of the corrupted bytes.
C3_DecodeFailureFallsBack ==
    (call.img \in {"errored", "drawfailed"}) =>
        /\ call.pc = "fulfilled"
        /\ call.error = ""
        /\ call.result = Fallback(call)

\* the error event settled a call whose bytes the substitution had changed
C3_Witness ==
    /\ call.img = "errored" /\ call.path = "onerror"
    /\ call.changedBytes > 0
    /\ call.pc = "fulfilled"

\* the settlements that are not a successful decode
FallbackPaths == {"timeout", "onerror", "onload-catch", "catch"}

\* C4: two calls on the same configuration with the same input and the same
\* encoder output, both settled by a path other than a successful decode,
\* have byte-identical results.
C4_Deterministic ==
    (/\ call.pc = "fulfilled" /\ prev.pc = "fulfilled"
     /\ call.path \in FallbackPaths /\ prev.path \in FallbackPaths
     /\ call.imageData = prev.imageData
     /\ call.dataURL = prev.dataURL) =>
        call.result = prev.result

\* two such calls, one settled by the timer and one by the error event, on
\* bytes the substitution had changed
C4_Witness ==
    /\ call.pc = "fulfilled" /\ prev.pc = "fulfilled"
    /\ call.path = "onerror" /\ prev.path = "timeout"
    /\ call.imageData = prev.imageData
    /\ call.dataURL = prev.dataURL
    /\ call.changedBytes > 0
    /\ call.result = prev.result

\* C5: on an inactive engine a call on one of the four formats that the
\* platform encodes is not rejected, makes no substitution, and hands the
\* encoder's bytes to the reconstruction, which is started.
C5_InactivePassesThrough ==
    (/\ call.pc /= "idle"
     /\ ~engine.isActive
     /\ call.mode \in Formats
     /\ ~(call.format = "bmp" /\ call.dataURL.mime = "image/png")) =>
        /\ call.pc = "pending"
        /\ call.dataURL /= NoDataURL
        /\ call.bytes = EncoderBytes(call)
        /\ call.corruptedDataURL.base64 = call.dataURL.base64
        /\ call.replacementCount = 0 /\ call.changedBytes = 0
        /\ call.timer = "armed" /\ call.img = "loading"

\* an inactive engine, unprotected, whose pattern occurs in the stream of the
\* pending call and would have been replaced
C5_Witness ==
    /\ call.pc = "pending"
    /\ ~engine.isActive /\ ~engine.headerProtection
    /\ corruptImageBytes(engine, call.bytes, 0).bytes /= call.bytes

\* C6: when sourceBytes and destBytes are equal, the substitution step
\* counts no replacement and leaves the stream as the encoder gave it.
C6_EqualBytesNoOp ==
    (/\ call.pc = "pending"
     /\ engine.sourceBytes = engine.destBytes) =>
        /\ call.replacementCount = 0
        /\ call.bytes = EncoderBytes(call)

\* C7: setReplacementChars('', '') leaves zero-length sourceBytes and
\* destBytes, and when either is empty the substitution step ends with no
\* replacement and the stream as the encoder gave it.
C7_EmptyPatternNoOp ==
    /\ (engine.sourceChars = <<>> /\ engine.destChars = <<>>) =>
            (Len(engine.sourceBytes) = 0 /\ Len(engine.destBytes) = 0)
    /\ (/\ call.pc /= "idle"
        /\ call.mode \in Formats
        /\ ~(call.format = "bmp" /\ call.dataURL.mime = "image/png")
        /\ (Len(engine.sourceBytes) = 0 \/ Len(engine.destBytes) = 0)) =>
            /\ call.pc = "pending"
            /\ call.replacementCount = 0 /\ call.changedBytes = 0
            /\ call.bytes = EncoderBytes(call)

\* an active, unprotected engine with an empty destination whose source
\* occurs in the stream of the pending call
C7_Witness ==
    /\ call.pc = "pending"
    /\ engine.isActive /\ ~engine.headerProtection
    /\ Len(engine.sourceBytes) > 0 /\ Len(engine.destBytes) = 0
    /\ \E i \in 0..(Len(call.bytes) - Len(engine.sourceBytes)) :
            MatchesAt(call.bytes, i, engine.sourceBytes)

\* the effective start offset of a protected stream, as the design states it:
\* the larger of the format's skip and the format's fraction of the length
HeaderRegion(format, length) ==
    CASE format = "jpeg" -> 50
      [] format = "png"  -> Max(200, length \div 2)
      [] format = "webp" -> Max(100, (3 * length) \div 10)
      [] format = "bmp"  -> Max(30, length \div 5)

\* C8: with header protection on, the stream keeps its length and every byte
\* below the effective start offset max(skip, fraction of the length), and so
\* each of the first 50 (jpeg), 200 (png), 100 (webp), 30 (bmp) bytes, is the
\* encoder's byte, also when the stream is shorter than that region.
C8_HeaderPreserved ==
    (call.pc = "pending" /\ engine.headerProtection) =>
        /\ Len(call.bytes) = Len(EncoderBytes(call))
        /\ \A k \in 1..Len(call.bytes) :
              (k <= HeaderRegion(call.format, Len(call.bytes)))
                  => call.bytes[k] = EncoderBytes(call)[k]

\* a protected, active engine whose call changed bytes of a stream that
\* is longer than the header region, in which the pattern occurs as well
C8_Witness ==
    /\ call.pc = "pending"
    /\ engine.isActive /\ engine.headerProtection
    /\ call.changedBytes > 0
    /\ Len(call.bytes) > HeaderRegion(call.format, Len(call.bytes))
    /\ MatchesAt(EncoderBytes(call), 0, engine.sourceBytes)

\* C9: corruptImageStream on a format that is not one of the four throws
\* 'Unsupported image format': nothing is encoded, substituted or returned.
C9_UnsupportedFormatThrows ==
    (call.entry = "corruptImageStream" /\ call.format \notin Formats) =>
        /\ call.pc = "rejected"
        /\ call.error = "Unsupported image format"
        /\ call.dataURL = NoDataURL
        /\ call.bytes = <<>>
        /\ call.corruptedDataURL = NoDataURL
        /\ call.timer = "none" /\ call.img = "none"
        /\ call.result = NoImage

\* corruptImageStream was called with 'unsupported' on an active engine
C9_Witness ==
    /\ call.entry = "corruptImageStream" /\ call.format = "unsupported"
    /\ call.pc = "rejected"
    /\ engine.isActive

\* C10: when bmp is asked for and the platform's data URL is a PNG, the call
\* is rejected with the BMP-not-supported error: the payload is neither
\* decoded, nor substituted, nor handed to the reconstruction.
C10_BmpSubstitutionRejected ==
    (call.pc /= "idle" /\ call.format = "bmp" /\ call.dataURL.mime = "image/png") =>
        /\ call.pc = "rejected"
        /\ call.error = "BMP format not supported by this browser"
        /\ call.bytes = <<>>
        /\ call.corruptedDataURL = NoDataURL
        /\ call.timer = "none" /\ call.img = "none"
        /\ call.result = NoImage

\* applyEffect on mode bmp got a PNG data URL from the platform
C10_Witness ==
    /\ call.entry = "applyEffect" /\ call.format = "bmp"
    /\ call.dataURL.mime = "image/png"
    /\ call.dataURL.base64 /= <<>>
    /\ call.pc = "rejected"

\* C11: setCorruptionMode stores every value as given, recognized or not,
\* and changes nothing else: the step that sets the mode rejects nothing and
\* leaves the call as it is.  The error 'Unknown corruption mode' belongs to
\* a rejected applyEffect call that dispatched on a mode outside the four
\* formats, and every such call has it.
C11_SetModeFailsLate ==
    /\ [](/\ \A mode \in ModeInputs :
                setCorruptionMode(engine, mode)
                    = [engine EXCEPT !.corruptionMode = mode]
          /\ (call.error = "Unknown corruption mode") =>
                (call.pc = "rejected" /\ call.entry = "applyEffect"
                 /\ call.mode \notin Formats)
          /\ (call.entry = "applyEffect" /\ call.mode \notin Formats) =>
                (call.pc = "rejected" /\ call.error = "Unknown corruption mode"))
    /\ [][(engine'.corruptionMode /= engine.corruptionMode) =>
              /\ engine' = [engine EXCEPT !.corruptionMode = engine'.corruptionMode]
              /\ call' = call]_vars

\* the mode 'invalid' was stored on a new engine (protected, inactive), and
\* the applyEffect call that followed was rejected
C11_Witness ==
    /\ engine.corruptionMode = "invalid"
    /\ engine.headerProtection /\ ~engine.isActive
    /\ call.entry = "applyEffect" /\ call.mode = "invalid"
    /\ call.pc = "rejected" /\ call.error = "Unknown corruption mode"

\* C12: while header protection is on, a step that changes the mode never
\* stores a mode outside the four formats (setCorruptionMode throws on it).
C12_SetterThrowsOnUnknown ==
    [][(engine.headerProtection /\ engine'.corruptionMode /= engine.corruptionMode)
          => engine'.corruptionMode \in Formats]_vars

\* C13: the result of useCorruptedBytes on a non-empty byte array has the
\* width and height of the original and four samples per pixel; pixel p, with
\* i = p mod len, holds bytes[i], bytes[(i+1) mod len], bytes[(i+2) mod len],
\* 255; the bytes [10,20,30,40] and one pixel give 10, 20, 30, 255.
C13_FallbackMapping ==
    /\ (call.entry = "useCorruptedBytes" /\ Len(call.bytes) > 0) =>
          LET len    == Len(call.bytes)
              pixels == call.imageData.width * call.imageData.height
          IN  /\ call.result.width = call.imageData.width
              /\ call.result.height = call.imageData.height
              /\ Len(call.result.data) = 4 * pixels
              /\ \A p \in 0..(pixels - 1) :
                    LET i == p % len
                    IN  /\ call.result.data[4 * p + 1] = call.bytes[i + 1]
                        /\ call.result.data[4 * p + 2] = call.bytes[((i + 1) % len) + 1]
                        /\ call.result.data[4 * p + 3] = call.bytes[((i + 2) % len) + 1]
                        /\ call.result.data[4 * p + 4] = 255
    /\ useCorruptedBytes(<<10, 20, 30, 40>>, ImageData(1, 1)).data
          = <<10, 20, 30, 255>>

\* useCorruptedBytes was called on two bytes and three pixels: the bytes
\* are cycled through
C13_Witness ==
    /\ call.entry = "useCorruptedBytes"
    /\ call.bytes = <<10, 20>>
    /\ call.imageData.width = 3 /\ call.imageData.height = 1
    /\ call.result.data = <<10, 20, 10, 255, 20, 10, 20, 255, 10, 20, 10, 255>>

\* C14: at most one applyEffect call of the render loop is pending at any
\* time: no call is pending when a frame calls applyEffect, and while a call
\* is pending the busy flag is set.
C14_AtMostOneInFlight ==
    /\ InFlight <= 1
    /\ app.unsettled = 0
    /\ (call.pc = "pending") => app.isProcessing

\* a call is pending while the camera runs and more than the interval has
\* passed since the call was started: only the busy flag keeps a frame from
\* starting another
C14_Witness ==
    /\ call.pc = "pending" /\ app.isProcessing
    /\ CameraReady(camera)
    /\ clock - app.lastProcessTime > 500

\* C15: of any two consecutive frames that call applyEffect, the second reads
\* a clock more than 500 ms past the reading of the first, whether the first
\* call is settled or not; the time of the last attempt is never before the
\* last start.
C15_Throttled ==
    /\ (Len(app.startTimes) = 2) => (app.startTimes[2] - app.startTimes[1] > 500)
    /\ (Len(app.startTimes) > 0) =>
          (app.lastProcessTime >= app.startTimes[Len(app.startTimes)])
    /\ app.glitchInterval = 500

\* two calls were started 501 ms apart, the first of them settled and
\* displayed before 500 ms had passed
C15_Witness ==
    /\ Len(app.startTimes) = 2
    /\ app.startTimes[2] - app.startTimes[1] = 501
    /\ app.lastGlitchResult /= NoImage
    /\ call.pc = "pending"

\* C16: a camera that was never granted a stream is not running, and a new
\* camera is not; the step that makes a camera running is the return of a
\* call of start() that waited for the metadata of its stream, and the
\* latest call returns true there; a call that returns leaves the camera
\* running; stop() on any camera, running or not, with or without a frame
\* requested by render(), leaves it not running with the stream reference,
\* the video source and the animation id cleared, and a step that ends
\* running clears them and stops the tracks of the stream.
C16_RunningState ==
    /\ [](/\ (camera.granted = 0) => ~isRunning(camera)
          /\ ~isRunning(NewCameraController)
          /\ isRunning(camera) => camera.stream /= NoStream
          /\ ~isRunning(stop(camera))
          /\ stop(camera).stream = NoStream
          /\ stop(camera).srcObject = NoStream
          /\ stop(camera).animationId = 0
          /\ camera.animationId \notin stop(camera).scheduled
          /\ stop(camera).startCall = camera.startCall)
    /\ [][/\ (~isRunning(camera) /\ isRunning(camera')) =>
                /\ camera.metadataWaiter /= "none"
                /\ camera'.metadataWaiter = "none"
                /\ camera'.stream /= NoStream
                /\ camera'.videoWidth > 0
                /\ (camera.metadataWaiter = "latest") =>
                      /\ camera.startCall.pc = "metadata"
                      /\ camera'.startCall.pc = "returned"
                      /\ camera'.startCall.value = "true"
          /\ (camera.startCall.pc /= "returned" /\ camera'.startCall.pc = "returned") =>
                /\ isRunning(camera')
                /\ camera'.startCall.value = "true"
          /\ (isRunning(camera) /\ ~isRunning(camera')) =>
                /\ camera'.stream = NoStream
                /\ camera'.srcObject = NoStream
                /\ camera'.animationId = 0
                /\ camera.stream \notin camera'.live]_vars

\* a camera whose start() returned true, on which render() drew the video
\* and requested a frame, and that was stopped afterwards: the request is
\* cancelled and the canvas cleared
C16_Witness ==
    /\ camera.startCall.pc = "returned" /\ camera.startCall.value = "true"
    /\ ~isRunning(camera)
    /\ camera.granted = 1
    /\ camera.stream = NoStream /\ camera.srcObject = NoStream
    /\ camera.live = {}
    /\ camera.requested = 1 /\ camera.scheduled = {} /\ camera.animationId = 0
    /\ camera.frame = NoImage

\* C17: a start() that was called on a running camera, while the camera is
\* still running, has returned false, and the camera has the stream it had:
\* no further stream was asked for or granted.
C17_SecondStartRefused ==
    (camera.startCall.wasRunning /\ isRunning(camera)) =>
        /\ camera.startCall.pc = "returned"
        /\ camera.startCall.value = "false"
        /\ camera.stream = camera.startCall.streamAtCall
        /\ camera.live = {camera.stream}

\* the handlers of the race: the timer, the load and the error event
RacePaths == {"timeout", "onload", "onload-catch", "onerror"}

\* C18: once one of the three handlers has resolved the promise, a handler
\* that fires later changes nothing but the record that its event happened:
\* the promise stays fulfilled by the same path with the same value, the
\* buffer that was returned keeps its samples, and the flag stays set.
C18_LosingPathDiscarded ==
    /\ [](call.pc = "fulfilled" /\ call.path \in RacePaths => call.resolved)
    /\ [][(call.pc = "fulfilled" /\ call.path \in RacePaths /\ call'.pc /= "idle") =>
              call' = [call EXCEPT !.img = call'.img, !.timer = call'.timer]]_vars

\* the image loaded after the timer had resolved the promise with the
\* fallback of bytes that the substitution had changed
C18_Witness ==
    /\ call.pc = "fulfilled" /\ call.path = "timeout"
    /\ call.timer = "fired" /\ call.img = "loaded"
    /\ call.changedBytes > 0
    /\ call.result = Fallback(call)

\* what a successful decode gives: pixels at the dimensions of the input
DecodedPixels(imageData) ==
    {drawn.pixels : drawn \in {d \in DrawOutcomes(imageData) : ~d.throws}}

\* C19: a fulfilled call of applyEffect or corruptImageStream has one of
\* these outcomes: the load event came first (the timer was cleared) and
\* drawing succeeded, and the result is the decoded pixels at the width and
\* height of the input; or the load event came first and drawing failed, or
\* the error event came first, or the timer fired first, or the image could
\* not be created, and the result is the fallback of the corrupted bytes.
C19_RaceOutcome ==
    (call.pc = "fulfilled" /\ call.entry \in {"applyEffect", "corruptImageStream"}) =>
        \/ /\ call.path = "onload"
           /\ call.img = "loaded" /\ call.timer = "cleared"
           /\ call.result \in DecodedPixels(call.imageData)
           /\ call.result.width = call.imageData.width
           /\ call.result.height = call.imageData.height
        \/ /\ call.path = "onload-catch"
           /\ call.img = "drawfailed" /\ call.timer = "cleared"
           /\ call.result = Fallback(call)
        \/ /\ call.path = "onerror"
           /\ call.img = "errored" /\ call.timer = "cleared"
           /\ call.result = Fallback(call)
        \/ /\ call.path = "timeout"
           /\ call.timer = "fired"
           /\ call.result = Fallback(call)
        \/ /\ call.path = "catch"
           /\ call.img = "none" /\ call.timer = "none"
           /\ call.result = Fallback(call)

\* the load event won the race of an applyEffect call and the decoded
\* pixels, which differ from the fallback, are the result
C19_Witness ==
    /\ call.entry = "applyEffect"
    /\ call.pc = "fulfilled" /\ call.path = "onload"
    /\ call.result /= Fallback(call)
    /\ \A k \in DOMAIN call.result.data : call.result.data[k] = 254

\* the positions (0-based) of the left-to-right, non-overlapping occurrences
\* of sourceBytes in bytes from position i on
RECURSIVE Occurrences(_, _, _)
Occurrences(bytes, i, sourceBytes) ==
    IF i > Len(bytes) - Len(sourceBytes) THEN {}
    ELSE IF MatchesAt(bytes, i, sourceBytes)
    THEN {i} \cup Occurrences(bytes, i + Len(sourceBytes), sourceBytes)
    ELSE Occurrences(bytes, i + 1, sourceBytes)

\* C20: when destBytes is shorter than sourceBytes, every occurrence that
\* the scan replaces is overwritten over the whole length of sourceBytes:
\* destBytes first, then its last byte; each occurrence counts once.  The
\* stream [65,65,83,84,66] with source [83,84] and dest [68] from start 0
\* becomes [65,65,68,68,66] with one replacement.
C20_ShorterDestPads ==
    /\ (/\ call.pc = "pending" /\ engine.isActive /\ ShouldReplace(engine)
        /\ Len(engine.destBytes) < Len(engine.sourceBytes)) =>
          LET src   == engine.sourceBytes
              dst   == engine.destBytes
              first == StartByte(engine, Len(call.bytes), SkipBytes(engine, call.format))
              occ   == Occurrences(EncoderBytes(call), first, src)
          IN  /\ call.replacementCount = Cardinality(occ)
              /\ \A i \in occ : \A j \in 0..(Len(src) - 1) :
                    call.bytes[i + j + 1] =
                        IF j < Len(dst) THEN dst[j + 1] ELSE dst[Len(dst)]
    /\ ScanFrom(<<65, 65, 83, 84, 66>>, 0, <<83, 84>>, <<68>>, 0)
          = [bytes |-> <<65, 65, 68, 68, 66>>, replacementCount |-> 1, error |-> "",
             matches |-> {2}]

\* a protected jpeg call replaced occurrences of a four-byte source by a
\* one-byte destination
C20_Witness ==
    /\ call.pc = "pending" /\ engine.isActive /\ engine.headerProtection
    /\ call.format = "jpeg"
    /\ Len(engine.sourceBytes) = 4 /\ Len(engine.destBytes) = 1
    /\ call.replacementCount > 0
    /\ call.changedBytes = 4 * call.replacementCount

(***************************************************************************)
(* The substitution scan (ScanSpec).  While a call is not idle the engine  *)
(* holds the configuration the call ran with: the setters of ScanSpec run  *)
(* between calls only.                                                     *)
(***************************************************************************)
\* the matches whose window i..i+len(source)-1 holds the 0-based position p
WindowsAt(p) ==
    {m \in call.matches : p >= m /\ p < m + Len(engine.sourceBytes)}

\* C21: the scan keeps the length of the stream for every pattern pair; on a
\* match only the first len(source) bytes of dest are written, and every
\* byte outside the matched windows is the byte the stream had before.
C21_LengthInvariant ==
    /\ call.entry = "corruptImageBytes" =>
          Len(call.bytes) = Len(call.beforeCorruption)
    /\ call.startByte /= NoScan =>
          /\ Len(call.bytes) = Len(call.beforeCorruption)
          /\ \A k \in 1..Len(call.bytes) :
                IF WindowsAt(k - 1) = {}
                THEN call.bytes[k] = call.beforeCorruption[k]
                ELSE \A m \in WindowsAt(k - 1) :
                        (k - 1 - m) < Len(engine.destBytes) =>
                            call.bytes[k] = engine.destBytes[k - m]

\* a scan replaced an occurrence by the head of a longer destination, and
\* the stream goes on after the window for at least the bytes left over
C21_Witness ==
    /\ call.startByte /= NoScan
    /\ Len(engine.destBytes) > Len(engine.sourceBytes)
    /\ \E m \in call.matches : m + Len(engine.destBytes) <= Len(call.bytes)

\* C22: after a match at i the scan goes on at i + len(source): any two
\* matches lie at least len(source) apart, so their windows are disjoint, and
\* each counts once.  Source [83,83] on the stream [83,83,83,83] matches at
\* the positions 0 and 2, twice in all.
C22_NoOverlap ==
    /\ call.startByte /= NoScan =>
          /\ \A m \in call.matches, n \in call.matches :
                m < n => n >= m + Len(engine.sourceBytes)
          /\ \A m \in call.matches :
                m >= call.startByte /\ m + Len(engine.sourceBytes) <= Len(call.bytes)
          /\ call.replacementCount = Cardinality(call.matches)
    /\ LET scanned == ScanFrom(<<83, 83, 83, 83>>, 0, <<83, 83>>, <<68>>, 0)
       IN  scanned.matches = {0, 2} /\ scanned.replacementCount = 2

\* a two-byte source matched twice in a row where the stream also held it
\* one byte after the first match
C22_Witness ==
    /\ call.startByte /= NoScan
    /\ Len(engine.sourceBytes) = 2
    /\ \E m \in call.matches :
          /\ m + 2 \in call.matches
          /\ MatchesAt(call.beforeCorruption, m + 1, engine.sourceBytes)

\* the last position at which the scan of the call can match
LastPosition == Len(call.beforeCorruption) - Len(engine.sourceBytes)

\* C23: the positions the scan replaces are the left-to-right, non-overlapping
\* occurrences of sourceBytes in the stream as it was before the scan, from
\* the start offset on: a position is replaced exactly when the original
\* stream holds sourceBytes there and it lies in no window replaced before
\* it.  replacementCount is their number and every byte outside their windows
\* is unchanged.
C23_GreedyReference ==
    call.startByte /= NoScan =>
        /\ call.matches \subseteq call.startByte..LastPosition
        /\ \A p \in call.startByte..LastPosition :
              p \in call.matches <=>
                  /\ MatchesAt(call.beforeCorruption, p, engine.sourceBytes)
                  /\ ~\E m \in call.matches :
                        m < p /\ p < m + Len(engine.sourceBytes)
        /\ call.entry = "corruptImageBytes" =>
              call.matches = Occurrences(call.beforeCorruption, call.startByte,
                                         engine.sourceBytes)
        /\ call.replacementCount = Cardinality(call.matches)
        /\ \A k \in 1..Len(call.bytes) :
              WindowsAt(k - 1) = {} => call.bytes[k] = call.beforeCorruption[k]

\* a scan replaced occurrences and left a stream that holds sourceBytes, made
\* of written bytes, at a position it did not replace
C23_Witness ==
    /\ call.startByte /= NoScan
    /\ Cardinality(call.matches) >= 2
    /\ \E p \in call.startByte..LastPosition :
          /\ p \notin call.matches
          /\ MatchesAt(call.bytes, p, engine.sourceBytes)
          /\ ~MatchesAt(call.beforeCorruption, p, engine.sourceBytes)

\* C24: a scan that applyEffect runs starts at 0 when headerProtection is
\* off, for every mode, and at max(skip(mode), floor(fraction(mode) * length))
\* when it is on, with skip 50, 200, 100, 30 and fraction 0, 0.5, 0.3, 0.2 for
\* jpeg, png, webp, bmp; nothing before that offset is matched.
C24_EffectiveStart ==
    (call.entry = "applyEffect" /\ call.startByte /= NoScan) =>
        /\ ~engine.headerProtection =>
              call.skipBytes = 0 /\ call.startByte = 0
        /\ engine.headerProtection =>
              /\ call.skipBytes = FormatSkipBytes(call.mode)
              /\ call.startByte =
                    HeaderRegion(call.mode, Len(call.beforeCorruption))
        /\ \A m \in call.matches : m >= call.startByte

\* a protected png call on a stream of more than 400 bytes scanned from half
\* of its length, past the 200 bytes of the table, and replaced from there
C24_Witness ==
    /\ call.entry = "applyEffect" /\ call.mode = "png"
    /\ engine.headerProtection
    /\ call.startByte > PngSkipBytes
    /\ call.startByte \in call.matches

\* the start offset the scan of the call would have with headerProtection
\* off: corruptImageStream passes 0 as skipBytes then, a direct caller of
\* corruptImageBytes its own skipBytes
UnprotectedStart ==
    LET unprotected == setHeaderProtection(engine, FALSE)
    IN  StartByte(unprotected, Len(call.beforeCorruption),
                  IF call.entry = "applyEffect"
                  THEN SkipBytes(unprotected, call.format)
                  ELSE call.skipBytes)

\* C25: for every mode and every length of the stream, a scan with
\* headerProtection on starts at or after the offset at which the same scan
\* starts with headerProtection off.
C25_OffsetMonotone ==
    (call.startByte /= NoScan /\ engine.headerProtection) =>
        call.startByte >= UnprotectedStart

\* a protected direct call with a skipBytes of its own started the scan
\* later than skipBytes, at the fraction of the length
C25_Witness ==
    /\ call.entry = "corruptImageBytes" /\ call.startByte /= NoScan
    /\ engine.headerProtection
    /\ call.skipBytes > 0
    /\ call.startByte > UnprotectedStart

(***************************************************************************)
(* The configuration and calls in flight.                                  *)
(***************************************************************************)
\* the two engines agree on every field that is not in fields
SameExcept(e1, e2, fields) ==
    \A f \in (DOMAIN e1) \ fields : e1[f] = e2[f]

PatternFields == {"sourceChars", "destChars", "sourceBytes", "destBytes"}

\* C26: each setter stores the value it is given and changes nothing else:
\* setReplacementChars the two strings and the byte sequences derived from
\* them, setCorruptionMode the mode, setHeaderProtection and setActive their
\* flag.  After any sequence of setter calls the byte sequences are the
\* UTF-8 encodings of the stored strings, and a step that changes the
\* configuration changes the fields of one setter only and no call.
C26_SetterFrames ==
    /\ [](/\ \A active \in BOOLEAN :
                LET set == setActive(engine, active)
                IN  set.isActive = active /\ SameExcept(set, engine, {"isActive"})
          /\ \A s \in PatternStrings, d \in PatternStrings :
                LET set == setReplacementChars(engine, s, d)
                IN  /\ set.sourceChars = s /\ set.destChars = d
                    /\ set.sourceBytes = TextEncoderEncode(s)
                    /\ set.destBytes = TextEncoderEncode(d)
                    /\ SameExcept(set, engine, PatternFields)
          /\ \A mode \in ModeInputs :
                LET set == setCorruptionMode(engine, mode)
                IN  set.corruptionMode = mode
                    /\ SameExcept(set, engine, {"corruptionMode"})
          /\ \A enabled \in BOOLEAN :
                LET set == setHeaderProtection(engine, enabled)
                IN  set.headerProtection = enabled
                    /\ SameExcept(set, engine, {"headerProtection"})
          /\ engine.sourceBytes = TextEncoderEncode(engine.sourceChars)
          /\ engine.destBytes = TextEncoderEncode(engine.destChars))
    /\ [][(engine' /= engine) =>
              /\ call' = call
              /\ \/ SameExcept(engine', engine, {"isActive"})
                 \/ SameExcept(engine', engine, PatternFields)
                 \/ SameExcept(engine', engine, {"corruptionMode"})
                 \/ SameExcept(engine', engine, {"headerProtection"})]_vars

\* every setter has been called: the engine is active and unprotected in
\* mode webp, with a lone surrogate as source (stored as EF BF BD) and a
\* surrogate pair as destination (stored as its four bytes)
C26_Witness ==
    /\ engine.isActive /\ ~engine.headerProtection
    /\ engine.corruptionMode = "webp"
    /\ engine.sourceChars = <<55296>> /\ engine.sourceBytes = <<239, 191, 189>>
    /\ engine.destChars = <<55357, 56832>> /\ Len(engine.destBytes) = 4

\* the errors of the two lookups that header protection makes: the switch on
\* format in corruptImageStream and the switch on corruptionMode in
\* corruptImageBytes
LookupErrors ==
    {"Unknown format for header protection",
     "Unknown corruption mode for header protection"}

\* C27: an applyEffect call never fails with an error of the two header
\* protection lookups: a mode outside the four formats is rejected at
\* dispatch with 'Unknown corruption mode', and a call that gets past the
\* dispatch makes both lookups with its mode, one of the four.
C27_LookupErrorsUnreachable ==
    call.entry = "applyEffect" =>
        /\ call.error \notin LookupErrors
        /\ call.mode \notin Formats =>
              (call.pc = "rejected" /\ call.error = "Unknown corruption mode"
               /\ call.startByte = NoScan)
        /\ call.mode \in Formats => call.format = call.mode
        /\ call.startByte /= NoScan =>
              (call.mode \in Formats /\ call.skipBytes \in {0, FormatSkipBytes(call.mode)})

\* an applyEffect call of a protected engine in mode webp made both lookups
\* and went on to the reconstruction
C27_Witness ==
    /\ call.entry = "applyEffect" /\ call.mode = "webp"
    /\ call.skipBytes = WebpSkipBytes
    /\ call.startByte = WebpSkipBytes
    /\ call.pc = "pending"

\* what the synchronous part of a call computed before the call suspended
Computed(c) ==
    <<c.entry, c.mode, c.format, c.imageData, c.dataURL, c.beforeCorruption,
      c.skipBytes, c.startByte, c.matches, c.bytes, c.replacementCount,
      c.changedBytes, c.corruptedDataURL>>

\* C28: while an applyEffect call waits for the race between the decode and
\* the timer, a setter changes the configuration and nothing of the call;
\* what the call computed before it suspended stays as it is, the call is
\* not rejected any more, and the result it is fulfilled with is the
\* fallback of the bytes it corrupted before it suspended, or the decoded
\* pixels: the configuration at that time has no part in it.
C28_ConfigReadBeforeSuspend ==
    [][(call.pc = "pending" /\ call.entry = "applyEffect") =>
          /\ (engine' /= engine) => call' = call
          /\ Computed(call') = Computed(call)
          /\ call'.pc \in {"pending", "fulfilled"}
          /\ call'.pc = "fulfilled" =>
                call'.result \in {Fallback(call)} \cup DecodedPixels(call.imageData)]_vars

\* an applyEffect call that changed bytes in mode jpeg, so of an active
\* engine, was fulfilled by the timer with the fallback of those bytes,
\* and the engine is inactive, in another mode and unprotected by now
C28_Witness ==
    /\ call.entry = "applyEffect" /\ call.mode = "jpeg"
    /\ call.changedBytes > 0
    /\ call.pc = "fulfilled" /\ call.path = "timeout"
    /\ call.result = Fallback(call)
    /\ ~engine.isActive /\ engine.corruptionMode = "invalid"
    /\ engine.sourceChars = <<>>

(***************************************************************************)
(* The render loop.                                                        *)
(***************************************************************************)
\* C29: whenever the render loop has set its busy flag for an applyEffect
\* call, the flag is cleared later: when the call resolves, when it rejects,
\* and when displaying its result throws.
C29_BusyFlagReleased == app.isProcessing ~> ~app.isProcessing

\* two calls of the loop were rejected or never produced a frame, the flag
\* is clear after the second, which a later tick had started
C29_Witness ==
    /\ Len(app.startTimes) = 2
    /\ app.startTimes[2] > app.startTimes[1] + GlitchInterval
    /\ ~app.isProcessing /\ call = NoCall /\ app.unsettled = 0
    /\ app.lastGlitchResult = NoImage

\* the pictures of the camera at the sizes the video reports
RawFrames == {VideoPixels(size.width, size.height) : size \in VideoSizes}

\* C30: the render loop never displays the camera's picture.  A frame that
\* appears on the canvas is the result of the applyEffect call that was just
\* fulfilled, or the last result kept by the loop, or black when there is no
\* result yet; the last result changes only to the result of a fulfilled
\* call.
C30_NeverRawInput ==
    [][/\ (camera'.frame /= camera.frame /\ camera'.frame /= NoImage) =>
             \/ /\ call.pc = "fulfilled" /\ call.entry = "applyEffect"
                /\ camera'.frame = call.result
                /\ app'.lastGlitchResult = call.result
             \/ /\ app.lastGlitchResult /= NoImage
                /\ camera'.frame = app.lastGlitchResult
                /\ app' = app
             \/ /\ app.lastGlitchResult = NoImage
                /\ camera'.frame = ImageData(camera.canvas.width, camera.canvas.height)
                /\ app' = app
       /\ (app'.lastGlitchResult /= app.lastGlitchResult) =>
             /\ call.pc = "fulfilled" /\ call.entry = "applyEffect"
             /\ app'.lastGlitchResult = call.result]_vars

\* a second call is in flight on a raw frame of the camera while the canvas
\* shows the result of the first
C30_Witness ==
    /\ app.isProcessing /\ call.pc = "pending"
    /\ call.imageData \in RawFrames
    /\ Len(app.startTimes) = 2
    /\ app.lastGlitchResult /= NoImage
    /\ camera.frame = app.lastGlitchResult

====
